---- MODULE Spec2Model ----
(***************************************************************************)
(* A model of readloc (src/main.rs): the interval merger, the CIGAR        *)
(* decoder, the coverage evaluator and the pipeline of main() that         *)
(* partitions candidate rows, selects the best match of every ambiguous    *)
(* read, sorts the result and writes the output file.                      *)
(*                                                                         *)
(* Strings the code scans byte by byte (CIGAR) are sequences of            *)
(* one-character strings.  A Rust panic or an Err returned by main is a    *)
(* value with ok = FALSE.  Coordinates are i64 in the code; the model's    *)
(* coordinates stay far below 2^63, where i64 arithmetic is exact.         *)
(***************************************************************************)
EXTENDS Integers, Sequences, FiniteSets, TLC

VARIABLES
    m_vec,      \* merge_range: the argument `vec`
    m_out,      \* merge_range: the returned vector
    m_pc,       \* merge_range: "call" before the call, "done" after
    d_tokens,   \* decoder: the <<run length, operation>> tokens the CIGAR was written from
    d_cigar,    \* decoder: the CIGAR string handed to cigar_parser
    d_offset,   \* decoder: the offset handed to cigar_parser
    d_out,      \* decoder: what cigar_parser did (returned ranges, or panicked)
    d_pc,       \* decoder: "call" before the call, "done" after
    cv_tokens,  \* calc_coverage: the tokens the CIGAR was written from
    cv_cigar,   \* calc_coverage: the argument cigar
    cv_a,       \* calc_coverage: the argument a (alignment start)
    cv_b,       \* calc_coverage: the argument b (alignment end), -1 until line 76 reads it
    cv_c,       \* calc_coverage: the argument c (region start), -1 until line 78 reads it
    cv_d,       \* calc_coverage: the argument d (region end), -1 until line 79 reads it
    cv_ranges,  \* calc_coverage: the local `ranges`
    cv_cov,     \* calc_coverage: the returned coverage, -1 before the return
    cv_pc,      \* calc_coverage: "call", "decoded", "checked", "returned" or "panicked"
    has_bed,    \* main: the region directory held a .bed file (dfs is not empty)
    dfs_rows,   \* main: the candidate rows of the frames in dfs, in directory order
    merged_df,  \* main: the rows of the frame `merged`
    uniq,       \* main: the rows of the frame `uniq`
    duplicated, \* main: the rows of the frame `duplicated`
    dedup,      \* main: the rows of the frame `dedup`
    result,     \* main: the rows of the frame `result`
    outfile,    \* main: the rows written to <task>.reloc.bed, NoFile while it does not exist
    pc          \* main: the step main() is at, or how it ended

mergeVars == <<m_vec, m_out, m_pc>>

decodeVars == <<d_tokens, d_cigar, d_offset, d_out, d_pc>>

covVars == <<cv_tokens, cv_cigar, cv_a, cv_b, cv_c, cv_d, cv_ranges, cv_cov, cv_pc>>

mainVars == <<has_bed, dfs_rows, merged_df, uniq, duplicated, dedup, result, outfile, pc>>

vars == <<mergeVars, decodeVars, covVars, mainVars>>

(***************************************************************************)
(* Bounds of the model.                                                    *)
(***************************************************************************)
MaxIntervals == 3   \* merge_range: longest input vector
MaxPoint == 4       \* merge_range: largest coordinate of an input interval
MaxTokens == 3      \* decoder: most tokens of a generated CIGAR
MaxRun == 2         \* decoder: run lengths 1..MaxRun, and
LongRun == 12       \*          one run length of more than one digit
MaxOffset == 1      \* decoder: offsets 0..MaxOffset
MaxRawLen == 4      \* decoder: longest raw (possibly malformed) CIGAR string
MaxCovTokens == 3   \* calc_coverage: most tokens of a generated CIGAR
MaxCoord == 7       \* calc_coverage: a, b, c, d are drawn from 0..MaxCoord
MaxRows == 3        \* main: most candidate rows of a run

(***************************************************************************)
(* Generic helpers.                                                        *)
(***************************************************************************)
Max2(x, y) == IF x >= y THEN x ELSE y

Min2(x, y) == IF x <= y THEN x ELSE y

SeqsUpTo(S, n) == UNION {[1..k -> S] : k \in 0..n}

\* the integer points of the half-open interval r = <<start, end>>
Points(r) == {p \in r[1]..(r[2] - 1) : TRUE}

PointSet(rs) == UNION {Points(rs[k]) : k \in 1..Len(rs)}

(***************************************************************************)
(* merge_range (main.rs 24-46).                                            *)
(***************************************************************************)
\* a plausible slip: `s < end` instead of `s <= end` (adjacent runs stay apart)
RECURSIVE MergeStepStrict(_, _, _, _, _)
MergeStepStrict(vec, k, start, end, merged) ==
    IF k > Len(vec) THEN Append(merged, <<start, end>>)
    ELSE LET s == vec[k][1]
             e == vec[k][2]
         IN  IF s < end
             THEN MergeStepStrict(vec, k + 1, start, Max2(end, e), merged)
             ELSE MergeStepStrict(vec, k + 1, s, e, Append(merged, <<start, end>>))

\* the loop of lines 33-41 from element k on, then the push of line 43
RECURSIVE MergeStep(_, _, _, _, _)
MergeStep(vec, k, start, end, merged) ==
    IF k > Len(vec) THEN Append(merged, <<start, end>>)
    ELSE LET s == vec[k][1]
             e == vec[k][2]
         IN  IF s <= end
             THEN MergeStep(vec, k + 1, start, Max2(end, e), merged)
             ELSE MergeStep(vec, k + 1, s, e, Append(merged, <<start, end>>))

merge_range(vec) ==
    IF vec = <<>> THEN <<>>
    ELSE MergeStep(vec, 2, vec[1][1], vec[1][2], <<>>)

(***************************************************************************)
(* cigar_parser (main.rs 48-72).  `cigar` is a sequence of one-character   *)
(* strings; i and j are the code's 0-based byte offsets.                   *)
(***************************************************************************)
DigitChars == {"0", "1", "2", "3", "4", "5", "6", "7", "8", "9"}

\* char::is_digit(10), line 55
IsDigit(ch) == ch \in DigitChars

DigitVal(ch) ==
    CASE ch = "0" -> 0 [] ch = "1" -> 1 [] ch = "2" -> 2 [] ch = "3" -> 3
      [] ch = "4" -> 4 [] ch = "5" -> 5 [] ch = "6" -> 6 [] ch = "7" -> 7
      [] ch = "8" -> 8 [] ch = "9" -> 9

\* the inner while of lines 55-57: the first offset >= j that holds no digit
RECURSIVE ScanDigits(_, _)
ScanDigits(cigar, j) ==
    IF j < Len(cigar) /\ IsDigit(cigar[j + 1]) THEN ScanDigits(cigar, j + 1) ELSE j

\* str::parse::<i64>() of a run of digits, line 58: decimal value, Err on ""
RECURSIVE DecimalValue(_)
DecimalValue(digits) ==
    IF digits = <<>> THEN 0
    ELSE 10 * DecimalValue(SubSeq(digits, 1, Len(digits) - 1))
         + DigitVal(digits[Len(digits)])

\* a plausible slip: unwrap_or(0) in place of unwrap()
ParseI64OrZero(digits) == [ok |-> TRUE, val |-> DecimalValue(digits)]

ParseI64(digits) ==
    IF digits = <<>> THEN [ok |-> FALSE, val |-> 0]
    ELSE [ok |-> TRUE, val |-> DecimalValue(digits)]

\* the one-byte slice cigar[j..=j] of lines 60 and 64: out of range at the end
SliceAt(cigar, j) ==
    IF j < Len(cigar) THEN [ok |-> TRUE, ch |-> cigar[j + 1]]
    ELSE [ok |-> FALSE, ch |-> ""]

\* the test of line 60
IsMatchOp(op) == op = "M" \/ op = "D"

\* a plausible slip: insertions advance the reference cursor as well
IsSkipOrInsOp(op) == op = "N" \/ op = "I"

\* the test of line 64
IsSkipOp(op) == op = "N"

\* what a panic leaves behind: no value
Panicked == [ok |-> FALSE, ranges |-> <<>>, start |-> 0, end |-> 0]

\* the while loop of lines 53-69 from offset i on; the unwrap of line 58 panics
\* on a token without digits, the slice of line 60 panics past the end
RECURSIVE ParseLoop(_, _, _, _, _, _)
ParseLoop(cigar, offset, i, start, end, valid_ranges) ==
    IF ~(i < Len(cigar))
    THEN [ok |-> TRUE, ranges |-> valid_ranges, start |-> start, end |-> end]
    ELSE LET j   == ScanDigits(cigar, i)
             num == ParseI64(SubSeq(cigar, i + 1, j))
             op  == SliceAt(cigar, j)
         IN  IF ~num.ok \/ ~op.ok THEN Panicked
             ELSE IF IsMatchOp(op.ch)
             THEN ParseLoop(cigar, offset, j + 1, end + num.val, end + num.val,
                            Append(valid_ranges,
                                   <<start + offset, end + num.val + offset>>))
             ELSE IF IsSkipOp(op.ch)
             THEN ParseLoop(cigar, offset, j + 1, end + num.val, end + num.val,
                            valid_ranges)
             ELSE ParseLoop(cigar, offset, j + 1, start, end, valid_ranges)

\* cigar_parser with the final values of its locals start and end kept beside
\* the returned vector (line 70 merges, line 71 returns)
cigar_parser(cigar, offset) ==
    LET r == ParseLoop(cigar, offset, 0, 0, 0, <<>>)
    IN  IF r.ok THEN [r EXCEPT !.ranges = merge_range(r.ranges)] ELSE Panicked

(***************************************************************************)
(* calc_coverage (main.rs 74-90).                                          *)
(***************************************************************************)
\* a plausible slip: the assertion compares b with the end of the first range
IntegrityOkFirst(b, ranges) == ranges # <<>> /\ b = ranges[1][2]

\* assert_eq!(b, ranges[ranges.len()-1].1), line 76: the index panics on an
\* empty vector, the assertion on a different end
IntegrityOk(b, ranges) == ranges # <<>> /\ b = ranges[Len(ranges)][2]

\* a plausible slip: the clamp to the region end is left out
OverlapUnclamped(range, c, d) ==
    LET btm == Max2(range[1], c)
        top == range[2]
    IN  IF top > btm THEN top - btm ELSE 0

\* the closure of lines 77-87
Overlap(range, c, d) ==
    LET btm == Max2(range[1], c)
        top == Min2(range[2], d)
    IN  IF top > btm THEN top - btm ELSE 0

\* mapped_vec.iter().sum(), line 88
RECURSIVE SumOverlaps(_, _, _)
SumOverlaps(ranges, c, d) ==
    IF ranges = <<>> THEN 0
    ELSE Overlap(ranges[1], c, d) + SumOverlaps(Tail(ranges), c, d)

calc_coverage(a, b, c, d, cigar) ==
    LET parsed == cigar_parser(cigar, a)
    IN  IF parsed.ok /\ IntegrityOk(b, parsed.ranges)
        THEN [ok |-> TRUE, cov |-> SumOverlaps(parsed.ranges, c, d)]
        ELSE [ok |-> FALSE, cov |-> 0]

(***************************************************************************)
(* main (main.rs 103-320): the frames are sequences of rows, a row a       *)
(* record of the eight columns selected on lines 176-179.  The polars      *)
(* operators are modelled by what the calls of main ask of them.           *)
(***************************************************************************)
Columns == {"chr", "align_0", "align_1", "read", "region_0", "region_1", "region", "cigar"}

ReadsOf(df) == {df[k].read : k \in 1..Len(df)}

\* the rows of df whose read is `read`, in the order of df
Group(df, read) == SelectSeq(df, LAMBDA row : row.read = read)

\* unique(Some(["read"]), UniqueKeepStrategy::None), line 210: only the rows
\* whose read occurs once
UniqueKeepNone(df) == SelectSeq(df, LAMBDA row : Len(Group(df, row.read)) = 1)

\* a plausible slip: the .not() of line 212 left out
FilterIsIn(df, uniq_df) == SelectSeq(df, LAMBDA row : row.read \in ReadsOf(uniq_df))

\* filter(col("read").is_in(uniq["read"]).not()), lines 211-213
FilterNotIn(df, uniq_df) == SelectSeq(df, LAMBDA row : row.read \notin ReadsOf(uniq_df))

\* the keys of groupby_stable([col("read")]), lines 215 and 263: first-seen order
RECURSIVE GroupKeys(_)
GroupKeys(df) ==
    IF df = <<>> THEN <<>>
    ELSE LET init == GroupKeys(SubSeq(df, 1, Len(df) - 1))
             key  == df[Len(df)].read
         IN  IF \E k \in 1..Len(init) : init[k] = key THEN init ELSE Append(init, key)

\* line 252 for one row
RowCoverage(row) ==
    calc_coverage(row.align_0, row.align_1, row.region_0, row.region_1, row.cigar)

\* a plausible slip: a failed score becomes a null (below every score), not a panic
GroupScoresNullOnFailure(g) ==
    [ok |-> TRUE,
     cov |-> [k \in 1..Len(g) |-> IF RowCoverage(g[k]).ok THEN RowCoverage(g[k]).cov ELSE -1]]

\* the closure of lines 218-257 on one group: a score for every row, or the
\* panic of calc_coverage
GroupScores(g) ==
    [ok |-> \A k \in 1..Len(g) : RowCoverage(g[k]).ok,
     cov |-> [k \in 1..Len(g) |-> RowCoverage(g[k]).cov]]

\* a plausible slip: the last of the maxima
ArgMaxLast(scores) ==
    (CHOOSE i \in 1..Len(scores) :
        /\ \A j \in 1..Len(scores) : scores[j] <= scores[i]
        /\ \A j \in (i + 1)..Len(scores) : scores[j] < scores[i]) - 1

\* arg_max(), line 259: the 0-based index of the first of the maxima
ArgMax(scores) ==
    (CHOOSE i \in 1..Len(scores) :
        /\ \A j \in 1..Len(scores) : scores[j] <= scores[i]
        /\ \A j \in 1..(i - 1) : scores[j] < scores[i]) - 1

\* dupcov, lines 214-260: for every group its key and cov_idx
Dupcov(dup) ==
    LET keys == GroupKeys(dup)
    IN  [k \in 1..Len(keys) |->
            [read |-> keys[k],
             cov_idx |-> ArgMax(GroupScores(Group(dup, keys[k])).cov)]]

\* every score of every group could be computed
DupcovOk(dup) == \A read \in ReadsOf(dup) : GroupScores(Group(dup, read)).ok

\* dedup, lines 262-275: the join puts cov_idx beside every row of its read,
\* take(cov_idx).first() keeps the row at that index of the group
Dedup(dup) ==
    LET dupcov == Dupcov(dup)
    IN  [k \in 1..Len(dupcov) |-> Group(dup, dupcov[k].read)[dupcov[k].cov_idx + 1]]

\* format!("chr{}", i) for i in 1..=22, line 279
ChrNumbered ==
    <<"chr1", "chr2", "chr3", "chr4", "chr5", "chr6", "chr7", "chr8", "chr9", "chr10",
      "chr11", "chr12", "chr13", "chr14", "chr15", "chr16", "chr17", "chr18", "chr19",
      "chr20", "chr21", "chr22">>

\* chr_map, lines 277-284
chr_map ==
    [name \in {ChrNumbered[i] : i \in 1..22} \cup {"chrX", "chrY", "chrM"} |->
        IF name = "chrX" THEN 97
        ELSE IF name = "chrY" THEN 98
        ELSE IF name = "chrM" THEN 99
        ELSE CHOOSE i \in 1..22 : ChrNumbered[i] = name]

\* chr_map.get(c).unwrap(), line 293, panics on a name the map does not hold
ChrKnown(df) == \A k \in 1..Len(df) : df[k].chr \in DOMAIN chr_map

\* a plausible slip: chr_n left out of the sort columns
SortKeyNoChr(row) == <<row.align_0, row.align_1, row.region_0, row.region_1>>

\* the columns of sort_by_exprs, lines 299-308
SortKey(row) ==
    <<chr_map[row.chr], row.align_0, row.align_1, row.region_0, row.region_1>>

RECURSIVE LexLeq(_, _)
LexLeq(k1, k2) ==
    IF k1 = <<>> THEN TRUE
    ELSE IF k1[1] # k2[1] THEN k1[1] < k2[1]
    ELSE LexLeq(Tail(k1), Tail(k2))

Bijections(n) == {f \in [1..n -> 1..n] : \A i, j \in 1..n : i # j => f[i] # f[j]}

\* every order of df that is ascending in the sort columns (all flags false): the
\* order of rows of equal key is the engine's choice
SortedOrders(df) ==
    {o \in {[k \in 1..Len(df) |-> df[f[k]]] : f \in Bijections(Len(df))} :
        \A k \in 1..(Len(o) - 1) : LexLeq(SortKey(o[k]), SortKey(o[k + 1]))}

(***************************************************************************)
(* The inputs of the decoder.  A well-formed CIGAR is written from tokens  *)
(* <<run length, operation>>: the run length in decimal, then the          *)
(* operation letter.                                                       *)
(***************************************************************************)
CigarOps == {"M", "D", "N", "I", "S"}

RunLens == (1..MaxRun) \cup {LongRun}

Tokens == RunLens \X CigarOps

DigitSeq == <<"0", "1", "2", "3", "4", "5", "6", "7", "8", "9">>

RECURSIVE FormatInt(_)
FormatInt(n) ==
    IF n < 10 THEN <<DigitSeq[n + 1]>>
    ELSE FormatInt(n \div 10) \o <<DigitSeq[(n % 10) + 1]>>

RECURSIVE FormatCigar(_)
FormatCigar(tokens) ==
    IF tokens = <<>> THEN <<>>
    ELSE FormatInt(tokens[1][1]) \o <<tokens[1][2]>> \o FormatCigar(Tail(tokens))

\* the characters raw strings are drawn from: digits, operation letters, a non-letter
RawChars == {"1", "2", "M", "N", "S", "*"}

LetterChars ==
    {"A", "B", "C", "D", "E", "F", "G", "H", "I", "J", "K", "L", "M",
     "N", "O", "P", "Q", "R", "S", "T", "U", "V", "W", "X", "Y", "Z"}

(***************************************************************************)
(* merge_range applied to one vector in non-decreasing start order.        *)
(***************************************************************************)
Intervals == {r \in (0..MaxPoint) \X (0..MaxPoint) : r[1] <= r[2]}

StartSorted(v) == \A k \in 1..(Len(v) - 1) : v[k][1] <= v[k + 1][1]

MergeDefaults == m_vec = <<>> /\ m_out = <<>> /\ m_pc = "idle"

DecodeDefaults ==
    /\ d_tokens = <<>> /\ d_cigar = <<>> /\ d_offset = 0
    /\ d_out = Panicked /\ d_pc = "idle"

CovDefaults ==
    /\ cv_tokens = <<>> /\ cv_cigar = <<>> /\ cv_a = 0 /\ cv_b = -1 /\ cv_c = -1
    /\ cv_d = -1 /\ cv_ranges = <<>> /\ cv_cov = -1 /\ cv_pc = "idle"

NoFile == [created |-> FALSE, rows |-> <<>>]

MainDefaults ==
    /\ has_bed = FALSE /\ dfs_rows = <<>> /\ merged_df = <<>> /\ uniq = <<>>
    /\ duplicated = <<>> /\ dedup = <<>> /\ result = <<>> /\ outfile = NoFile
    /\ pc = "idle"

InitMerge ==
    /\ m_vec \in {v \in SeqsUpTo(Intervals, MaxIntervals) : StartSorted(v)}
    /\ m_out = <<>>
    /\ m_pc = "call"
    /\ DecodeDefaults
    /\ CovDefaults
    /\ MainDefaults

CallMergeRange ==
    /\ m_pc = "call"
    /\ m_out' = merge_range(m_vec)
    /\ m_pc' = "done"
    /\ UNCHANGED <<m_vec, decodeVars, covVars, mainVars>>

NextMerge == CallMergeRange

SpecMerge == InitMerge /\ [][NextMerge]_vars

(***************************************************************************)
(* cigar_parser applied to one CIGAR string: written from tokens           *)
(* (SpecDecode) or drawn character by character (SpecParse).               *)
(***************************************************************************)
InitDecode ==
    /\ d_tokens \in SeqsUpTo(Tokens, MaxTokens)
    /\ d_cigar = FormatCigar(d_tokens)
    /\ d_offset \in 0..MaxOffset
    /\ d_out = Panicked
    /\ d_pc = "call"
    /\ MergeDefaults
    /\ CovDefaults
    /\ MainDefaults

InitParse ==
    /\ d_tokens = <<>>
    /\ d_cigar \in SeqsUpTo(RawChars, MaxRawLen)
    /\ d_offset = 0
    /\ d_out = Panicked
    /\ d_pc = "call"
    /\ MergeDefaults
    /\ CovDefaults
    /\ MainDefaults

CallCigarParser ==
    /\ d_pc = "call"
    /\ d_out' = cigar_parser(d_cigar, d_offset)
    /\ d_pc' = "done"
    /\ UNCHANGED <<d_tokens, d_cigar, d_offset, mergeVars, covVars, mainVars>>

NextDecode == CallCigarParser

SpecDecode == InitDecode /\ [][NextDecode]_vars

SpecParse == InitParse /\ [][NextDecode]_vars

(***************************************************************************)
(* calc_coverage applied to one candidate.  The arguments b, c and d are   *)
(* drawn where the code first reads them (lines 76, 78 and 79), so a call  *)
(* that panics at line 75 or 76 is not repeated for every region.          *)
(***************************************************************************)
CovTokens == (1..MaxRun) \X CigarOps

Coords == 0..MaxCoord

InitCov ==
    /\ cv_tokens \in SeqsUpTo(CovTokens, MaxCovTokens)
    /\ cv_cigar = FormatCigar(cv_tokens)
    /\ cv_a \in 0..MaxOffset
    /\ cv_b = -1 /\ cv_c = -1 /\ cv_d = -1
    /\ cv_ranges = <<>>
    /\ cv_cov = -1
    /\ cv_pc = "call"
    /\ MergeDefaults
    /\ DecodeDefaults
    /\ MainDefaults

\* line 75
CovDecode ==
    /\ cv_pc = "call"
    /\ LET parsed == cigar_parser(cv_cigar, cv_a)
       IN  /\ cv_ranges' = parsed.ranges
           /\ cv_pc' = IF parsed.ok THEN "decoded" ELSE "panicked"
    /\ UNCHANGED <<cv_tokens, cv_cigar, cv_a, cv_b, cv_c, cv_d, cv_cov,
                   mergeVars, decodeVars, mainVars>>

\* line 76
CovAssert ==
    /\ cv_pc = "decoded"
    /\ \E b \in Coords :
          /\ cv_b' = b
          /\ cv_pc' = IF IntegrityOk(b, cv_ranges) THEN "checked" ELSE "panicked"
    /\ UNCHANGED <<cv_tokens, cv_cigar, cv_a, cv_c, cv_d, cv_ranges, cv_cov,
                   mergeVars, decodeVars, mainVars>>

\* lines 77-89
CovSum ==
    /\ cv_pc = "checked"
    /\ \E c \in Coords, d \in Coords :
          /\ cv_c' = c
          /\ cv_d' = d
          /\ cv_cov' = SumOverlaps(cv_ranges, c, d)
    /\ cv_pc' = "returned"
    /\ UNCHANGED <<cv_tokens, cv_cigar, cv_a, cv_b, cv_ranges, mergeVars, decodeVars, mainVars>>

NextCov == CovDecode \/ CovAssert \/ CovSum

SpecCov == InitCov /\ [][NextCov]_vars

(***************************************************************************)
(* One run of main() from line 186 on.  The candidate rows are drawn from  *)
(* a small universe: two reads, two chromosomes whose rank order differs   *)
(* from their name order, two alignments and two regions, one alignment on *)
(* chrX, and three rows that are fatal when reached: a CIGAR ending in     *)
(* digits, an alignment end the CIGAR does not reproduce, an unknown       *)
(* chromosome.                                                             *)
(***************************************************************************)
Reads == {"r1", "r2"}

Chrs == {"chr2", "chr10"}

Alignments ==
    {[align_0 |-> 0, align_1 |-> 3, cigar |-> <<"1", "M", "1", "N", "1", "M">>],
     [align_0 |-> 1, align_1 |-> 3, cigar |-> <<"2", "M">>]}

Regions ==
    {[region_0 |-> 0, region_1 |-> 1, region |-> "gA"],
     [region_0 |-> 0, region_1 |-> 3, region |-> "gC"]}

MkRow(read, chr, aln, reg) ==
    [chr |-> chr, align_0 |-> aln.align_0, align_1 |-> aln.align_1, read |-> read,
     region_0 |-> reg.region_0, region_1 |-> reg.region_1, region |-> reg.region,
     cigar |-> aln.cigar]

GoodRows ==
    {MkRow(read, chr, aln, reg) : read \in Reads, chr \in Chrs,
                                  aln \in Alignments, reg \in Regions}

ChrXRow ==
    MkRow("r2", "chrX", [align_0 |-> 0, align_1 |-> 2, cigar |-> <<"2", "M">>],
          [region_0 |-> 0, region_1 |-> 3, region |-> "gC"])

MalformedCigarRow ==
    MkRow("r1", "chr2", [align_0 |-> 0, align_1 |-> 3, cigar |-> <<"3", "M", "3">>],
          [region_0 |-> 0, region_1 |-> 3, region |-> "gC"])

MismatchRow ==
    MkRow("r1", "chr2", [align_0 |-> 0, align_1 |-> 3, cigar |-> <<"2", "M">>],
          [region_0 |-> 0, region_1 |-> 1, region |-> "gA"])

ChrZRow ==
    MkRow("r1", "chrZ", [align_0 |-> 1, align_1 |-> 3, cigar |-> <<"2", "M">>],
          [region_0 |-> 0, region_1 |-> 3, region |-> "gC"])

CandidateRows == GoodRows \cup {ChrXRow, MalformedCigarRow, MismatchRow, ChrZRow}

Init ==
    /\ has_bed \in BOOLEAN
    /\ dfs_rows \in SeqsUpTo(CandidateRows, MaxRows)
    /\ ~has_bed => dfs_rows = <<>>
    /\ merged_df = <<>> /\ uniq = <<>> /\ duplicated = <<>> /\ dedup = <<>>
    /\ result = <<>>
    /\ outfile = NoFile
    /\ pc = "concat"
    /\ MergeDefaults
    /\ DecodeDefaults
    /\ CovDefaults

\* concat(&dfs, false, true)?, lines 186-187: Err("empty container given") on
\* an empty dfs, which main returns
Concat ==
    /\ pc = "concat"
    /\ IF has_bed
       THEN merged_df' = dfs_rows /\ pc' = "outdir"
       ELSE merged_df' = merged_df /\ pc' = "error"
    /\ UNCHANGED <<has_bed, dfs_rows, uniq, duplicated, dedup, result, outfile,
                   mergeVars, decodeVars, covVars>>

\* lines 193-208: exit(1) when the output directory named with -o does not exist
OutputDir ==
    /\ pc = "outdir"
    /\ \E is_dir \in BOOLEAN : pc' = IF is_dir THEN "partition" ELSE "exit1"
    /\ UNCHANGED <<has_bed, dfs_rows, merged_df, uniq, duplicated, dedup, result, outfile,
                   mergeVars, decodeVars, covVars>>

\* lines 210-213
Partition ==
    /\ pc = "partition"
    /\ uniq' = UniqueKeepNone(merged_df)
    /\ duplicated' = FilterNotIn(merged_df, UniqueKeepNone(merged_df))
    /\ pc' = "collect"
    /\ UNCHANGED <<has_bed, dfs_rows, merged_df, dedup, result, outfile,
                   mergeVars, decodeVars, covVars>>

\* lines 214-311: collect() runs the scoring, the selection, the concat of line
\* 286, the rank lookup and the sort; a panic of a closure ends the process
Collect ==
    /\ pc = "collect"
    /\ IF DupcovOk(duplicated) /\ ChrKnown(uniq \o Dedup(duplicated))
       THEN /\ dedup' = Dedup(duplicated)
            /\ result' \in SortedOrders(uniq \o Dedup(duplicated))
            /\ pc' = "write"
       ELSE /\ dedup' = dedup
            /\ result' = result
            /\ pc' = "panicked"
    /\ UNCHANGED <<has_bed, dfs_rows, merged_df, uniq, duplicated, outfile,
                   mergeVars, decodeVars, covVars>>

\* lines 315-316: the file is created and the rows of result written, no header
WriteOutput ==
    /\ pc = "write"
    /\ outfile' = [created |-> TRUE, rows |-> result]
    /\ pc' = "done"
    /\ UNCHANGED <<has_bed, dfs_rows, merged_df, uniq, duplicated, dedup, result,
                   mergeVars, decodeVars, covVars>>

Next == Concat \/ OutputDir \/ Partition \/ Collect \/ WriteOutput

Spec == Init /\ [][Next]_vars

(***************************************************************************)
(* What a token list means on the reference (SAM): M, D and N consume      *)
(* reference positions, I and S none; M and D cover the positions they     *)
(* consume.  The claims are stated against this reading of the tokens.     *)
(***************************************************************************)
RECURSIVE RefLen(_)
RefLen(tokens) ==
    IF tokens = <<>> THEN 0
    ELSE RefLen(SubSeq(tokens, 1, Len(tokens) - 1))
         + (IF tokens[Len(tokens)][2] \in {"M", "D", "N"}
            THEN tokens[Len(tokens)][1] ELSE 0)

CursorBefore(tokens, k) == RefLen(SubSeq(tokens, 1, k - 1))

CursorAfter(tokens, k) == RefLen(SubSeq(tokens, 1, k))

RunPoints(tokens, offset) ==
    UNION {(offset + CursorBefore(tokens, k))..(offset + CursorAfter(tokens, k) - 1) :
               k \in {n \in 1..Len(tokens) : tokens[n][2] \in {"M", "D"}}}

(***************************************************************************)
(* C3.  Whenever calc_coverage returns (the integrity check passed), the   *)
(* value is a non-negative integer: the number of reference positions p,   *)
(* c <= p < d, inside some M or D run of the CIGAR placed at a.            *)
(***************************************************************************)
C3_CoverageCountsRegionBases ==
    cv_pc = "returned" =>
        /\ cv_cov >= 0
        /\ cv_cov = Cardinality({p \in RunPoints(cv_tokens, cv_a) :
                                     cv_c <= p /\ p < cv_d})

\* two separate ranges, the region cutting into both
C3_Witness ==
    /\ cv_pc = "returned"
    /\ Len(cv_ranges) = 2
    /\ cv_c > cv_ranges[1][1] /\ cv_c < cv_ranges[1][2]
    /\ cv_d > cv_ranges[2][1] /\ cv_d < cv_ranges[2][2]
    /\ cv_cov = 2

(***************************************************************************)
(* C4.  calc_coverage returns a value only when the end of the last merged *)
(* interval equals b; whenever it differs the call panics at the           *)
(* assertion and no coverage is returned.                                  *)
(***************************************************************************)
C4_IntegrityCheckIsFatal ==
    /\ cv_pc \in {"checked", "returned"} =>
           (cv_ranges # <<>> /\ cv_ranges[Len(cv_ranges)][2] = cv_b)
    /\ (cv_b >= 0 /\ cv_ranges # <<>> /\ cv_ranges[Len(cv_ranges)][2] # cv_b) =>
           (cv_pc = "panicked" /\ cv_cov = -1)

\* b is the end of the first of two ranges, not of the last: the call panics
C4_Witness ==
    /\ cv_pc = "panicked"
    /\ Len(cv_ranges) = 2
    /\ cv_b = cv_ranges[1][2]
    /\ cv_cov = -1

StrictlySeparated(v) == \A k \in 1..(Len(v) - 1) : v[k + 1][1] > v[k][2]

(***************************************************************************)
(* C7.  merge_range on a non-empty vector in non-decreasing start order    *)
(* returns intervals in ascending start order, each starting strictly      *)
(* after the end of the one before it (neither overlapping nor adjacent),  *)
(* and covering exactly the points the input covers.                       *)
(***************************************************************************)
C7_MergeMinimalCover ==
    (m_pc = "done" /\ m_vec # <<>>) =>
        /\ m_out # <<>>
        /\ StartSorted(m_out)
        /\ StrictlySeparated(m_out)
        /\ PointSet(m_out) = PointSet(m_vec)

\* an overlap, an exact adjacency and a gap in one input
C7_Witness ==
    /\ m_pc = "done"
    /\ Len(m_vec) = 3
    /\ m_vec[2][1] = m_vec[1][2]
    /\ m_vec[1][1] < m_vec[1][2]
    /\ m_vec[3][1] > m_vec[2][2]
    /\ m_vec[3][1] < m_vec[3][2]
    /\ Len(m_out) = 2

(***************************************************************************)
(* C8.  For a CIGAR written from tokens over {M, D, N, I, S} with positive *)
(* run lengths, cigar_parser returns ranges covering exactly the           *)
(* positions [offset + cursor_before, offset + cursor_after) of the M and  *)
(* D runs, the cursor starting at 0 and advancing on M, D and N only; the  *)
(* terminal coordinate is offset plus the M, D and N run lengths.          *)
(***************************************************************************)
C8_DecodeCoversRuns ==
    d_pc = "done" =>
        /\ d_out.ok
        /\ PointSet(d_out.ranges) = RunPoints(d_tokens, d_offset)
        /\ d_out.end + d_offset = d_offset + RefLen(d_tokens)

\* a match, a splice gap of two digits, a deletion: two ranges, the gap uncovered
C8_Witness ==
    /\ d_pc = "done"
    /\ d_offset = MaxOffset
    /\ Len(d_tokens) = 3
    /\ d_tokens[1][2] = "M"
    /\ d_tokens[2] = <<LongRun, "N">>
    /\ d_tokens[3][2] = "D"
    /\ Len(d_out.ranges) = 2

\* s is a sequence of tokens, each one or more digits and then a character of ops
RECURSIVE TokenString(_, _)
TokenString(s, ops) ==
    \/ s = <<>>
    \/ \E k \in 1..(Len(s) - 1) :
          /\ \A m \in 1..k : s[m] \in DigitChars
          /\ s[k + 1] \in ops
          /\ TokenString(SubSeq(s, k + 2, Len(s)), ops)

(***************************************************************************)
(* C9.  The claim as stated: cigar_parser fails on every CIGAR holding a   *)
(* token that is not one or more digits followed by one letter.            *)
(***************************************************************************)
C9_Original ==
    (d_pc = "done" /\ ~TokenString(d_cigar, LetterChars)) => ~d_out.ok

(***************************************************************************)
(* C9, amended.  cigar_parser fails on every CIGAR holding a token without *)
(* digits or a trailing run of digits without an operation; a token of     *)
(* digits followed by one non-letter character is not rejected: it is      *)
(* skipped like any operation other than M, D and N.                       *)
(***************************************************************************)
C9_FailsOnMissingDigitsOrOp ==
    d_pc = "done" =>
        (d_out.ok <=> TokenString(d_cigar, RawChars \ DigitChars))

\* a well-formed token and then digits the string ends in
C9_Witness ==
    /\ d_pc = "done"
    /\ Len(d_cigar) = 3
    /\ TokenString(SubSeq(d_cigar, 1, 2), LetterChars)
    /\ d_cigar[3] \in DigitChars
    /\ ~d_out.ok

OneRowPerRead(out, input) ==
    /\ ReadsOf(out) = ReadsOf(input)
    /\ Len(out) = Cardinality(ReadsOf(input))
    /\ \A k \in 1..Len(out) :
          /\ DOMAIN out[k] = Columns
          /\ \E m \in 1..Len(input) : input[m] = out[k]

(***************************************************************************)
(* C1.  In a run that succeeds the assembled result (uniq then dedup,      *)
(* sorted) holds exactly one row for every read_id of the input and no     *)
(* other row, and every row equals, in all eight columns, an input row of  *)
(* that read_id.  The file holds the same rows.                            *)
(***************************************************************************)
C1_OneInputRowPerRead ==
    /\ pc \in {"write", "done"} => OneRowPerRead(result, dfs_rows)
    /\ pc = "done" => OneRowPerRead(outfile.rows, dfs_rows)

\* an ambiguous read and an unambiguous one, written
C1_Witness ==
    /\ pc = "done"
    /\ Len(dfs_rows) = 3
    /\ Len(uniq) = 1
    /\ Len(dedup) = 1
    /\ Len(outfile.rows) = 2

InputGroup(read) == Group(dfs_rows, read)

Score(row) == RowCoverage(row).cov

IsStableBest(row, g) ==
    \E i \in 1..Len(g) :
        /\ g[i] = row
        /\ \A j \in 1..Len(g) : Score(g[j]) <= Score(g[i])
        /\ \A j \in 1..(i - 1) : Score(g[j]) < Score(g[i])

(***************************************************************************)
(* C2.  For every ambiguous read the selected row is the row of maximal    *)
(* calc_coverage score within the read's rows, and among rows of maximal   *)
(* score the first in the input order.                                     *)
(***************************************************************************)
C2_StableArgmaxSelected ==
    pc \in {"write", "done"} =>
        \A read \in ReadsOf(dfs_rows) :
            Len(InputGroup(read)) >= 2 =>
                \A k \in 1..Len(result) :
                    result[k].read = read => IsStableBest(result[k], InputGroup(read))

\* three rows of one read: the maximum is not at the first row, and two
\* different rows share it
C2_Witness ==
    /\ pc = "done"
    /\ Len(dfs_rows) = 3
    /\ Len(duplicated) = 3
    /\ Len(dedup) = 1
    /\ Score(dfs_rows[1]) < Score(dfs_rows[2])
    /\ Score(dfs_rows[2]) = Score(dfs_rows[3])
    /\ dfs_rows[2] # dfs_rows[3]
    /\ dedup[1] = dfs_rows[2]

AmbiguousRows(input) == SelectSeq(input, LAMBDA row : Len(Group(input, row.read)) >= 2)

UnambiguousRows(input) == SelectSeq(input, LAMBDA row : Len(Group(input, row.read)) = 1)

KnownChrNames ==
    {"chr1", "chr2", "chr3", "chr4", "chr5", "chr6", "chr7", "chr8", "chr9", "chr10",
     "chr11", "chr12", "chr13", "chr14", "chr15", "chr16", "chr17", "chr18", "chr19",
     "chr20", "chr21", "chr22", "chrX", "chrY", "chrM"}

FatalInput(input) ==
    \/ \E k \in 1..Len(AmbiguousRows(input)) : ~RowCoverage(AmbiguousRows(input)[k]).ok
    \/ \E k \in 1..Len(UnambiguousRows(input)) :
          UnambiguousRows(input)[k].chr \notin KnownChrNames

(***************************************************************************)
(* C5.  The output file exists only once partitioning, scoring, selection, *)
(* rank lookup and sorting have completed: a run in which a scored row has *)
(* a malformed CIGAR or fails the integrity check, or a result row has an  *)
(* unknown chromosome, never creates the file, and a file that exists      *)
(* holds the complete sorted result.                                       *)
(***************************************************************************)
C5_FileOnlyAfterSuccess ==
    /\ outfile.created => (pc = "done" /\ outfile.rows = result)
    /\ pc \in {"error", "exit1", "panicked"} => ~outfile.created
    /\ FatalInput(dfs_rows) => (~outfile.created /\ pc # "done")

\* the run panicked in collect() on a row of an ambiguous read; no file
C5_Witness ==
    /\ pc = "panicked"
    /\ Len(dfs_rows) = 3
    /\ \E k \in 1..Len(duplicated) : ~RowCoverage(duplicated[k]).ok
    /\ \E k \in 1..Len(uniq) : uniq[k].chr \in KnownChrNames
    /\ ~outfile.created

RankTable ==
    ("chr1" :> 1) @@ ("chr2" :> 2) @@ ("chr3" :> 3) @@ ("chr4" :> 4) @@ ("chr5" :> 5)
    @@ ("chr6" :> 6) @@ ("chr7" :> 7) @@ ("chr8" :> 8) @@ ("chr9" :> 9)
    @@ ("chr10" :> 10) @@ ("chr11" :> 11) @@ ("chr12" :> 12) @@ ("chr13" :> 13)
    @@ ("chr14" :> 14) @@ ("chr15" :> 15) @@ ("chr16" :> 16) @@ ("chr17" :> 17)
    @@ ("chr18" :> 18) @@ ("chr19" :> 19) @@ ("chr20" :> 20) @@ ("chr21" :> 21)
    @@ ("chr22" :> 22) @@ ("chrX" :> 97) @@ ("chrY" :> 98) @@ ("chrM" :> 99)

ClaimedKey(row) ==
    <<RankTable[row.chr], row.align_0, row.align_1, row.region_0, row.region_1>>

(***************************************************************************)
(* C6.  The rows written are in non-decreasing lexicographic order of      *)
(* (chromosome rank, alignment_start, alignment_end, region_start,         *)
(* region_end), chr1..chr22 ranking 1..22, chrX 97, chrY 98, chrM 99; a    *)
(* result row of any other chromosome makes the run fail, and the rows     *)
(* written carry the eight columns only, not the rank.                     *)
(***************************************************************************)
C6_SortedByRankThenCoordinates ==
    /\ pc = "done" =>
          /\ \A k \in 1..Len(outfile.rows) :
                /\ outfile.rows[k].chr \in DOMAIN RankTable
                /\ DOMAIN outfile.rows[k] = Columns
          /\ \A k \in 1..(Len(outfile.rows) - 1) :
                LexLeq(ClaimedKey(outfile.rows[k]), ClaimedKey(outfile.rows[k + 1]))
    /\ (\E k \in 1..Len(UnambiguousRows(dfs_rows)) :
            UnambiguousRows(dfs_rows)[k].chr \notin DOMAIN RankTable)
          => pc \notin {"write", "done"}

\* chr2 before chr10, though the names and the alignment starts would order
\* them the other way
C6_Witness ==
    /\ pc = "done"
    /\ Len(outfile.rows) = 2
    /\ outfile.rows[1].chr = "chr2"
    /\ outfile.rows[2].chr = "chr10"
    /\ outfile.rows[1].align_0 > outfile.rows[2].align_0

(***************************************************************************)
(* C10.  The claim as stated: with a readable region directory that holds  *)
(* no .bed file the run does not fail; it completes and writes an empty    *)
(* output file.                                                            *)
(***************************************************************************)
C10_EmptyRunWritesEmptyFile ==
    ~has_bed => pc \notin {"error", "panicked"}

====
